---- MODULE Spec2Model ----
(***************************************************************************)
(* A model of flexget/plugins/input/next_sonarr_episodes.py: the generator *)
(* NextSonarrEpisodes.on_task_input, the get_page calls it issues and the  *)
(* consumer that pulls entries from it.                                    *)
(*                                                                         *)
(* The generator is followed statement by statement: one action per fetch, *)
(* per turn of the page loop and per turn of the record loop.  The answers *)
(* of the Sonarr server (the json of each page) are inputs, chosen when    *)
(* the page is requested.  calls, fetched, out and diag are history        *)
(* variables: what was requested, what was answered, what was yielded and  *)
(* what was logged as invalid.                                             *)
(***************************************************************************)
EXTENDS Integers, Sequences, FiniteSets, TLC

\* ------------------------------------------------------------------ bounds
\* Largest totalRecords the server reports.
MaxTotal == 3
\* Largest number of records the server returns over the pages of one run.
MaxRecords == 3
\* Largest integer limit of the configuration.
MaxLimit == 2
\* Largest page size of the configuration.
MaxPageSize == 2
\* Season and episode numbers run over 0..MaxNumber and a few wider ones.
MaxNumber == 11

\* ------------------------------------------------------------------ inputs
\* The seriesId values of the listing.
Groups == {"a", "b"}

\* What record['series'] holds under 'title': a non-empty string ("ok"), the
\* empty string ("empty"), or no such key ("missing").
Titles == {"ok", "empty", "missing"}

RawRecords == [seriesId : Groups, title : Titles]

\* config['page_size']: the schema asks for a number, with no minimum.
PageSizes == {-1, 0} \cup (1..MaxPageSize)

\* config['limit']: an integer >= 1 or a boolean.  A Python bool is an int
\* (False == 0, True == 1); n is its value as an int.
LimitConfigs ==
    {[bool |-> TRUE, n |-> b] : b \in {0, 1}}
        \cup {[bool |-> FALSE, n |-> k] : k \in 1..MaxLimit}

PyFalse == [bool |-> TRUE, n |-> 0]
PyTrue == [bool |-> TRUE, n |-> 1]

\* The records lists a page can hold, of at most n records.
RecordLists(n) == UNION {[1..k -> RawRecords] : k \in 0..n}

\* ----------------------------------------------------------------- helpers
RECURSIVE SumLen(_)
SumLen(ps) == IF ps = <<>> THEN 0 ELSE Len(Head(ps)) + SumLen(Tail(ps))

RECURSIVE Flatten(_)
Flatten(ps) == IF ps = <<>> THEN <<>> ELSE Head(ps) \o Flatten(Tail(ps))

\* int(math.ceil(t / p)) for t >= 0 and p # 0.
CeilDiv(t, p) ==
    IF p > 0 THEN (t + p - 1) \div p ELSE -(t \div (-p))

\* The first i pages of ps (all of them when there are fewer; none when i <= 0).
FirstPages(ps, i) ==
    IF i <= 0 THEN <<>> ELSE SubSeq(ps, 1, IF i < Len(ps) THEN i ELSE Len(ps))

\* ------------------------------------------------- the code's expressions
\* A page count that rounds down.
PagesOfFloor(totalRecords, pageSize) == totalRecords \div pageSize

\* pages = int(math.ceil(json['totalRecords'] / config.get('page_size')))
PagesOf(totalRecords, pageSize) == CeilDiv(totalRecords, pageSize)

\* limit = math.inf if limit is False else int(limit)
NormalizeLimit(l) ==
    IF l = PyFalse THEN [inf |-> TRUE, n |-> 0] ELSE [inf |-> FALSE, n |-> l.n]

\* A limit check that takes any boolean for no limit at all.
LimitCheckBoolUnlimited(count, l) == l.bool \/ count < l.n

\* A limit check that lets one record too many through.
LimitCheckInclusive(count, l) == count <= l.n

\* series_counter[record['seriesId']] < config.get('limit'): the comparison
\* reads the configured value, not the normalized one.
LimitCheck(count, l) == count < l.n

\* if page > 1: json = self.get_page(task, config, page)
NeedsFetch(p) == p > 1

\* A page loop that runs one page too far.
HasNextPageInclusive(p, n) == p <= n

\* A page loop that stops one page early.
HasNextPageShort(p, n) == p + 1 < n

\* for page in range(1, pages + 1): is there a page after p?
HasNextPage(p, n) == p < n

\* A record loop that stops one record early.
HasNextRecordShort(i, records) == i + 1 < Len(records)

\* for record in json['records']: is there a record after position i?
HasNextRecord(i, records) == i < Len(records)

\* A record loop that walks the page from its end.
RecordAtReversed(records, i) == records[Len(records) + 1 - i]

\* for record in json['records']: the record the loop takes at its i-th turn.
RecordAt(records, i) == records[i]

\* record['series']['title'] raises KeyError when the key is absent.
RaisesKeyError(record) == record.title = "missing"

\* entry.isvalid(): the required identity fields are present and non-empty.
IsValid(record) == record.title = "ok"

\* ------------------------------------------------- the Entry of a record
\* Strings are sequences of one-character strings.
DigitChars == <<"0", "1", "2", "3", "4", "5", "6", "7", "8", "9">>

\* '%d' % n for n >= 0: the decimal digits of n, most significant first.
RECURSIVE Dec(_)
Dec(n) ==
    IF n < 10 THEN <<DigitChars[n + 1]>>
    ELSE Dec(n \div 10) \o <<DigitChars[(n % 10) + 1]>>

\* A padding that keeps the last two digits only.
Pad2Truncating(n) == <<DigitChars[((n \div 10) % 10) + 1], DigitChars[(n % 10) + 1]>>

\* '%02d' % n for n >= 0: zeros are put in front up to a width of 2.
Pad2(n) == IF Len(Dec(n)) < 2 THEN <<"0">> \o Dec(n) ELSE Dec(n)

\* 'S%02dE%02d' % (season, episode)
EpisodeCode(season, episode) ==
    <<"S">> \o Pad2(season) \o <<"E">> \o Pad2(episode)

\* Entry(url='', series_name=..., series_season=..., series_episode=...,
\*       series_id=..., title=...) of a record.
MakeEntry(record) ==
    [url |-> <<>>,
     series_name |-> record.title,
     series_season |-> record.seasonNumber,
     series_episode |-> record.episodeNumber,
     series_id |-> EpisodeCode(record.seasonNumber, record.episodeNumber),
     title |-> record.title \o <<" ">>
                   \o EpisodeCode(record.seasonNumber, record.episodeNumber)]

\* The season and episode numbers of the records: small ones, and some of
\* two, three and four digits.
Numbers == (0..MaxNumber) \cup {99, 100, 123, 1000}

\* The series titles of the records.
SeriesTitles == {<<"A">>, <<"B", " ", "2">>}

\* The records an Entry is built from.
TitledRecords ==
    [title : SeriesTitles, seasonNumber : Numbers, episodeNumber : Numbers]

NoRecord == [title |-> <<>>, seasonNumber |-> 0, episodeNumber |-> 0]
NoEntry == [url |-> <<>>, series_name |-> <<>>, series_season |-> 0,
            series_episode |-> 0, series_id |-> <<>>, title |-> <<>>]

\* ------------------------------------------------------------ TrayIcon
\* How many menu items plugins add beyond the defaults.
MaxAdded == 2

\* The items plugins pass to add_menu_item.
PluginItems == {"x", "y"}

\* self.icon: None, or the Icon with the menu it was created with and where
\* pystray has it (created, running its loop, stopped).
NoIcon == [state |-> "None", menu |-> <<>>]

\* self._menu: None, or the Menu with the tuple of items it was built from.
NoMenu == [built |-> FALSE, items |-> <<>>]

\* add_menu_item (line 21): self.menu_items.append(menu_item).
AddItemFront(items, item) == <<item>> \o items

AddItem(items, item) == Append(items, item)

\* add_default_menu_items (lines 23-27).
AddDefaults(items) ==
    AddItem(AddItem(AddItem(AddItem(items, "Flexget version"),
                            "SEPARATOR"),
                    "Shutdown"),
            "Reload Config")

\* The menu property (lines 29-33): the Menu is built when there is none.
MenuOfRebuilt(m, items) == [built |-> TRUE, items |-> items]

MenuOf(m, items) ==
    IF ~m.built THEN [built |-> TRUE, items |-> items] ELSE m

\* --------------------------------------------------------------- the state
VARIABLES
    page_size,       \* config['page_size']
    cfg_limit,       \* config['limit']
    pc,              \* where the generator stands
    err,             \* the exception that ended the run, "" if none
    json,            \* the page in hand
    pages,           \* the number of pages computed from page 1
    limit,           \* the normalized limit
    page,            \* the page loop's variable
    idx,             \* the position of the record loop in json['records']
    series_counter,  \* Counter(): seriesId -> count, 0 when absent
    calls,           \* history: the page numbers get_page was called with
    fetched,         \* history: the records of each page get_page returned
    first_total,     \* history: the totalRecords of the answer to get_page(1)
    out,             \* history: the records whose entries were yielded
    diag,            \* history: the records logged as invalid entries
    raw,             \* the record an Entry is built from (lines 124-136)
    entry,           \* the Entry built from raw, NoEntry before
    icon,            \* TrayIcon.icon
    menu,            \* TrayIcon._menu
    menu_items,      \* TrayIcon.menu_items
    running,         \* TrayIcon.running
    main_pc,         \* the main thread: constructs the TrayIcon, calls run()
    stop_pc,         \* the thread that calls stop()
    tray_err,        \* the last exception a TrayIcon call raised, "" if none
    server,          \* two runs side by side: what get_page answers, per page
    runs             \* two runs side by side: the state of each generator

\* The variables of the generator run.
run_vars ==
    <<page_size, cfg_limit, pc, err, json, pages, limit, page, idx,
      series_counter, calls, fetched, first_total, out, diag>>

\* The variables of the Entry construction taken alone.
entry_vars == <<raw, entry>>

\* The variables of the TrayIcon and of the threads that call it.
tray_vars == <<icon, menu, menu_items, running, main_pc, stop_pc, tray_err>>

\* The variables of two generators run over one get_page.
twin_vars == <<server, runs>>

\* The variables a step of the generator run leaves alone.
others == <<entry_vars, tray_vars, twin_vars>>

vars == <<run_vars, others>>

config == <<page_size, cfg_limit>>
locals == <<json, pages, limit, page, idx, series_counter>>
history == <<calls, fetched, first_total, out, diag>>

NoJson == [totalRecords |-> 0, records |-> <<>>]

\* No Entry is being built.
EntryIdle == raw = NoRecord /\ entry = NoEntry

\* No TrayIcon has been constructed.
TrayIdle ==
    /\ icon = NoIcon
    /\ menu = NoMenu
    /\ menu_items = <<>>
    /\ running = FALSE
    /\ main_pc = "new"
    /\ stop_pc = "idle"
    /\ tray_err = ""

NoServer == [total |-> 0, records |-> <<>>, fail |-> 0]

\* No pair of runs is under way.
TwinIdle ==
    /\ server = NoServer
    /\ runs = <<>>

\* The generator object exists; its body has not started.
Init ==
    /\ EntryIdle
    /\ TrayIdle
    /\ TwinIdle
    /\ page_size \in PageSizes
    /\ cfg_limit \in LimitConfigs
    /\ pc = "created"
    /\ err = ""
    /\ json = NoJson
    /\ pages = 0
    /\ limit = [inf |-> FALSE, n |-> 0]
    /\ page = 0
    /\ idx = 0
    /\ series_counter = [g \in Groups |-> 0]
    /\ calls = <<>>
    /\ fetched = <<>>
    /\ first_total = 0
    /\ out = <<>>
    /\ diag = <<>>

\* The answers get_page(1) can return: any totalRecords, and any records.
FirstAnswers ==
    [totalRecords : 0..MaxTotal, records : RecordLists(MaxRecords)]

\* The answers get_page can return for a later page: a totalRecords that need
\* not be the one page 1 reported, and records within what the server has
\* left to return.
LaterAnswers ==
    [totalRecords : {0, MaxTotal},
     records : RecordLists(MaxRecords - SumLen(fetched))]

\* ------------------------------------------------------------ the actions
\* First next(): get_page(1) raises PluginError.
BeginFetchFail ==
    /\ pc = "created"
    /\ calls' = Append(calls, 1)
    /\ pc' = "error"
    /\ err' = "PluginError"
    /\ UNCHANGED <<others, config, locals, fetched, first_total, out, diag>>

\* First next(): get_page(1) returns, page_size is 0 and the division raises.
BeginZeroDivision ==
    /\ pc = "created"
    /\ page_size = 0
    /\ \E answer \in FirstAnswers :
        /\ json' = answer
        /\ fetched' = Append(fetched, answer.records)
        /\ first_total' = answer.totalRecords
    /\ calls' = Append(calls, 1)
    /\ pc' = "error"
    /\ err' = "ZeroDivisionError"
    /\ UNCHANGED <<others, config, pages, limit, page, idx, series_counter, out, diag>>

\* First next(): get_page(1) returns; pages, the counter and the limit are
\* set and the page loop is entered.
Begin ==
    /\ pc = "created"
    /\ page_size # 0
    /\ \E answer \in FirstAnswers :
        /\ json' = answer
        /\ fetched' = Append(fetched, answer.records)
        /\ first_total' = answer.totalRecords
        /\ pages' = PagesOf(answer.totalRecords, page_size)
    /\ calls' = Append(calls, 1)
    /\ series_counter' = [g \in Groups |-> 0]
    /\ limit' = NormalizeLimit(cfg_limit)
    /\ pc' = "for_page"
    /\ UNCHANGED <<others, config, err, page, idx, out, diag>>

\* The page loop has no page left: the generator returns.
PagesExhausted ==
    /\ pc = "for_page"
    /\ ~HasNextPage(page, pages)
    /\ pc' = "done"
    /\ UNCHANGED <<others, config, err, locals, history>>

\* The page loop takes page 1, whose json is in hand.
ReuseFirstPage ==
    /\ pc = "for_page"
    /\ HasNextPage(page, pages)
    /\ ~NeedsFetch(page + 1)
    /\ page' = page + 1
    /\ idx' = 0
    /\ pc' = "for_record"
    /\ UNCHANGED <<others, config, err, json, pages, limit, series_counter, history>>

\* A page loop that computes pages again from each page it is given.
FetchPageRecount ==
    /\ pc = "for_page"
    /\ HasNextPage(page, pages)
    /\ NeedsFetch(page + 1)
    /\ \E answer \in LaterAnswers :
        /\ json' = answer
        /\ fetched' = Append(fetched, answer.records)
        /\ pages' = PagesOf(answer.totalRecords, page_size)
    /\ calls' = Append(calls, page + 1)
    /\ page' = page + 1
    /\ idx' = 0
    /\ pc' = "for_record"
    /\ UNCHANGED <<others, config, err, limit, series_counter, first_total, out, diag>>

\* The page loop takes a later page and get_page returns it.
FetchPage ==
    /\ pc = "for_page"
    /\ HasNextPage(page, pages)
    /\ NeedsFetch(page + 1)
    /\ \E answer \in LaterAnswers :
        /\ json' = answer
        /\ fetched' = Append(fetched, answer.records)
    /\ calls' = Append(calls, page + 1)
    /\ page' = page + 1
    /\ idx' = 0
    /\ pc' = "for_record"
    /\ UNCHANGED <<others, config, err, pages, limit, series_counter, first_total, out, diag>>

\* A page loop that swallows the PluginError of get_page and goes on with
\* the page after.
FetchPageFailSwallowed ==
    /\ pc = "for_page"
    /\ HasNextPage(page, pages)
    /\ NeedsFetch(page + 1)
    /\ calls' = Append(calls, page + 1)
    /\ page' = page + 1
    /\ err' = "PluginError"
    /\ UNCHANGED <<others, config, pc, json, pages, limit, idx, series_counter, fetched,
                   first_total, out, diag>>

\* The page loop takes a later page and get_page raises PluginError.
FetchPageFail ==
    /\ pc = "for_page"
    /\ HasNextPage(page, pages)
    /\ NeedsFetch(page + 1)
    /\ calls' = Append(calls, page + 1)
    /\ page' = page + 1
    /\ pc' = "error"
    /\ err' = "PluginError"
    /\ UNCHANGED <<others, config, json, pages, limit, idx, series_counter, fetched,
                   first_total, out, diag>>

\* The record loop has no record left in this page.
RecordsExhausted ==
    /\ pc = "for_record"
    /\ ~HasNextRecord(idx, json.records)
    /\ pc' = "for_page"
    /\ UNCHANGED <<others, config, err, locals, history>>

\* A skip that counts the record it skips.
SkipRecordCounting ==
    /\ pc = "for_record"
    /\ HasNextRecord(idx, json.records)
    /\ LET record == RecordAt(json.records, idx + 1) IN
        /\ ~LimitCheck(series_counter[record.seriesId], cfg_limit)
        /\ series_counter' =
               [series_counter EXCEPT ![record.seriesId] = @ + 1]
    /\ idx' = idx + 1
    /\ UNCHANGED <<others, config, pc, err, json, pages, limit, page, history>>

\* The next record's series has reached the limit: nothing is done with it.
SkipRecord ==
    /\ pc = "for_record"
    /\ HasNextRecord(idx, json.records)
    /\ LET record == RecordAt(json.records, idx + 1) IN
        /\ ~LimitCheck(series_counter[record.seriesId], cfg_limit)
    /\ idx' = idx + 1
    /\ UNCHANGED <<others, config, pc, err, json, pages, limit, page, series_counter, history>>

\* The next record passes the limit check, its entry is valid and is yielded.
YieldEntry ==
    /\ pc = "for_record"
    /\ HasNextRecord(idx, json.records)
    /\ LET record == RecordAt(json.records, idx + 1) IN
        /\ LimitCheck(series_counter[record.seriesId], cfg_limit)
        /\ series_counter' =
               [series_counter EXCEPT ![record.seriesId] = @ + 1]
        /\ ~RaisesKeyError(record)
        /\ IsValid(record)
        /\ out' = Append(out, record)
    /\ idx' = idx + 1
    /\ pc' = "yielded"
    /\ UNCHANGED <<others, config, err, json, pages, limit, page, calls, fetched,
                   first_total, diag>>

\* The next record passes the limit check and its entry is not valid: it is
\* logged and the loop goes on.
InvalidEntry ==
    /\ pc = "for_record"
    /\ HasNextRecord(idx, json.records)
    /\ LET record == RecordAt(json.records, idx + 1) IN
        /\ LimitCheck(series_counter[record.seriesId], cfg_limit)
        /\ series_counter' =
               [series_counter EXCEPT ![record.seriesId] = @ + 1]
        /\ ~RaisesKeyError(record)
        /\ ~IsValid(record)
        /\ diag' = Append(diag, record)
    /\ idx' = idx + 1
    /\ UNCHANGED <<others, config, pc, err, json, pages, limit, page, calls, fetched,
                   first_total, out>>

\* The next record passes the limit check and has no title: building the
\* entry raises KeyError, after the counter was incremented.
EntryKeyError ==
    /\ pc = "for_record"
    /\ HasNextRecord(idx, json.records)
    /\ LET record == RecordAt(json.records, idx + 1) IN
        /\ LimitCheck(series_counter[record.seriesId], cfg_limit)
        /\ series_counter' =
               [series_counter EXCEPT ![record.seriesId] = @ + 1]
        /\ RaisesKeyError(record)
    /\ idx' = idx + 1
    /\ pc' = "error"
    /\ err' = "KeyError"
    /\ UNCHANGED <<others, config, json, pages, limit, page, history>>

\* The consumer pulls the next entry: the generator resumes after the yield.
Resume ==
    /\ pc = "yielded"
    /\ pc' = "for_record"
    /\ UNCHANGED <<others, config, err, locals, history>>

\* The consumer abandons the iteration: the generator is closed where it
\* stands, before its first step or at a yield.
Close ==
    /\ pc \in {"created", "yielded"}
    /\ pc' = "closed"
    /\ UNCHANGED <<others, config, err, locals, history>>

Next ==
    \/ Begin
    \/ BeginZeroDivision
    \/ BeginFetchFail
    \/ PagesExhausted
    \/ ReuseFirstPage
    \/ FetchPage
    \/ FetchPageFail
    \/ RecordsExhausted
    \/ SkipRecord
    \/ YieldEntry
    \/ InvalidEntry
    \/ EntryKeyError
    \/ Resume
    \/ Close

Spec == Init /\ [][Next]_vars

\* The runs in which every get_page call returns and the consumer keeps
\* pulling: no call fails, the generator is never closed, and a step that can
\* be taken is taken.
LiveNext ==
    \/ Begin
    \/ BeginZeroDivision
    \/ PagesExhausted
    \/ ReuseFirstPage
    \/ FetchPage
    \/ RecordsExhausted
    \/ SkipRecord
    \/ YieldEntry
    \/ InvalidEntry
    \/ EntryKeyError
    \/ Resume

LiveSpec == Init /\ [][LiveNext]_vars /\ WF_vars(LiveNext)

\* ------------------------------------------- the Entry construction alone
\* No generator runs: its variables stay as one configuration creates them.
RunIdle ==
    /\ page_size = 1
    /\ cfg_limit = [bool |-> FALSE, n |-> 1]
    /\ pc = "created"
    /\ err = ""
    /\ json = NoJson
    /\ pages = 0
    /\ limit = [inf |-> FALSE, n |-> 0]
    /\ page = 0
    /\ idx = 0
    /\ series_counter = [g \in Groups |-> 0]
    /\ calls = <<>>
    /\ fetched = <<>>
    /\ first_total = 0
    /\ out = <<>>
    /\ diag = <<>>

\* A record that passed the limit check, with its title, season and episode.
EntryInit ==
    /\ RunIdle
    /\ TrayIdle
    /\ TwinIdle
    /\ raw \in TitledRecords
    /\ entry = NoEntry

\* Lines 124-136: the Entry of the record is built.
BuildEntry ==
    /\ entry = NoEntry
    /\ entry' = MakeEntry(raw)
    /\ UNCHANGED <<run_vars, tray_vars, twin_vars, raw>>

EntryNext == BuildEntry

EntrySpec == EntryInit /\ [][EntryNext]_vars

\* -------------------------------------------------- the TrayIcon alone
TrayInit ==
    /\ RunIdle
    /\ EntryIdle
    /\ TwinIdle
    /\ TrayIdle

\* __init__ (lines 11-18).
Construct ==
    /\ main_pc = "new"
    /\ icon' = NoIcon
    /\ menu' = NoMenu
    /\ running' = FALSE
    /\ menu_items' = AddDefaults(<<>>)
    /\ main_pc' = "idle"
    /\ UNCHANGED <<run_vars, entry_vars, twin_vars, stop_pc, tray_err>>

\* add_menu_item (lines 20-21), called by any thread at any time.
AddMenuItem ==
    /\ main_pc # "new"
    /\ Len(menu_items) < Len(AddDefaults(<<>>)) + MaxAdded
    /\ \E item \in PluginItems : menu_items' = AddItem(menu_items, item)
    /\ UNCHANGED <<run_vars, entry_vars, twin_vars, icon, menu, running, main_pc,
                   stop_pc, tray_err>>

\* A read of the menu property (lines 29-33) from outside run().
MenuAccess ==
    /\ main_pc # "new"
    /\ menu' = MenuOf(menu, menu_items)
    /\ UNCHANGED <<run_vars, entry_vars, twin_vars, icon, menu_items, running, main_pc,
                   stop_pc, tray_err>>

\* run(), line 38, when Image.open raises: the arguments are evaluated left
\* to right, so self.menu is not read and self.icon is not assigned.
RunImageFail ==
    /\ main_pc = "idle"
    /\ tray_err' = "OSError"
    /\ UNCHANGED <<run_vars, entry_vars, twin_vars, icon, menu, menu_items, running,
                   main_pc, stop_pc>>

\* run(), lines 36-38: self.menu is read and the Icon is created with it.
RunSetRunningFirst ==
    /\ main_pc = "idle"
    /\ running' = TRUE
    /\ main_pc' = "line39"
    /\ UNCHANGED <<run_vars, entry_vars, twin_vars, icon, menu, menu_items, stop_pc,
                   tray_err>>

RunCreateIcon ==
    /\ main_pc = "idle"
    /\ menu' = MenuOf(menu, menu_items)
    /\ icon' = [state |-> "created", menu |-> menu'.items]
    /\ main_pc' = "line39"
    /\ UNCHANGED <<run_vars, entry_vars, twin_vars, menu_items, running, stop_pc,
                   tray_err>>

\* run(), line 39.
RunSetRunning ==
    /\ main_pc = "line39"
    /\ running' = TRUE
    /\ main_pc' = "line40"
    /\ UNCHANGED <<run_vars, entry_vars, twin_vars, icon, menu, menu_items, stop_pc,
                   tray_err>>

\* run(), line 40: icon.run() starts its loop and blocks. When stop() came
\* before it, pystray either starts the loop all the same or returns at once.
RunIconRun ==
    /\ main_pc = "line40"
    /\ \/ /\ icon' = [icon EXCEPT !.state = "running"]
          /\ main_pc' = "blocked"
       \/ /\ icon.state = "stopped"
          /\ icon' = icon
          /\ main_pc' = "idle"
    /\ UNCHANGED <<run_vars, entry_vars, twin_vars, menu, menu_items, running, stop_pc,
                   tray_err>>

\* run(), line 40: icon.run() returns once the icon was stopped.
RunReturn ==
    /\ main_pc = "blocked"
    /\ icon.state = "stopped"
    /\ main_pc' = "idle"
    /\ UNCHANGED <<run_vars, entry_vars, twin_vars, icon, menu, menu_items, running,
                   stop_pc, tray_err>>

\* stop(), line 43, while self.icon is None: None has no attribute stop.
StopFail ==
    /\ main_pc # "new"
    /\ stop_pc = "idle"
    /\ icon = NoIcon
    /\ tray_err' = "AttributeError"
    /\ UNCHANGED <<run_vars, entry_vars, twin_vars, icon, menu, menu_items, running,
                   main_pc, stop_pc>>

\* stop(), line 43: self.icon.stop().
StopIcon ==
    /\ stop_pc = "idle"
    /\ icon # NoIcon
    /\ icon' = [icon EXCEPT !.state = "stopped"]
    /\ stop_pc' = "line44"
    /\ UNCHANGED <<run_vars, entry_vars, twin_vars, menu, menu_items, running, main_pc,
                   tray_err>>

\* stop(), line 44.
StopClearRunning ==
    /\ stop_pc = "line44"
    /\ running' = FALSE
    /\ stop_pc' = "idle"
    /\ UNCHANGED <<run_vars, entry_vars, twin_vars, icon, menu, menu_items, main_pc,
                   tray_err>>

TrayNext ==
    \/ Construct
    \/ AddMenuItem
    \/ MenuAccess
    \/ RunImageFail
    \/ RunCreateIcon
    \/ RunSetRunning
    \/ RunIconRun
    \/ RunReturn
    \/ StopFail
    \/ StopIcon
    \/ StopClearRunning

TraySpec == TrayInit /\ [][TrayNext]_vars

\* ------------------------------------- two runs over the same get_page
\* The largest totalRecords of the server the two runs share, and so the
\* largest page number they can ask for.
TwinMaxTotal == 2
\* The most records that server holds over all its pages.
TwinMaxRecords == 2

\* The lists of k pages that hold at most n records together.
RECURSIVE PageSplits(_, _)
PageSplits(k, n) ==
    IF k = 0 THEN {<<>>}
    ELSE UNION {{<<rs>> \o rest : rest \in PageSplits(k - 1, n - Len(rs))} :
                    rs \in RecordLists(n)}

\* A deterministic get_page: the same answer for the same page whenever it
\* is asked, or the same failure (fail is the page whose request fails: the
\* first, the last, or 0 when none does).
Servers ==
    [total : 0..TwinMaxTotal,
     records : PageSplits(TwinMaxTotal, TwinMaxRecords),
     fail : {0, 1, TwinMaxTotal}]

\* get_page (lines 84-103) against that server.
GetPageFails(srv, p) == srv.fail = p

GetPage(srv, p) == [totalRecords |-> srv.total, records |-> srv.records[p]]

\* The generator object on_task_input returns for one configuration.
NewRun(ps, lim) ==
    [page_size |-> ps, cfg_limit |-> lim, pc |-> "created", err |-> "",
     json |-> NoJson, pages |-> 0, limit |-> [inf |-> FALSE, n |-> 0],
     page |-> 0, idx |-> 0, series_counter |-> [g \in Groups |-> 0],
     calls |-> <<>>, out |-> <<>>, diag |-> <<>>]

\* The limits of the two runs: the same one, or True beside the integer 1.
LimitPairs ==
    {<<l, l>> : l \in LimitConfigs}
        \cup {<<PyTrue, [bool |-> FALSE, n |-> 1]>>}

\* A counter that lives outside the call: every run reads the first run's.
CounterOfShared(rs, r) == rs[1].series_counter

\* series_counter = Counter() (line 110) is a local of the call: run r reads
\* its own.
CounterOf(rs, r) == rs[r].series_counter

\* One step of the body of on_task_input (lines 105-145) for run r, as the
\* actions of the single run take it, get_page being the server's.
RunStep(rs, r, srv) ==
    LET me == rs[r]
        counter == CounterOf(rs, r)
        record == RecordAt(me.json.records, me.idx + 1)
        counted == [counter EXCEPT ![record.seriesId] = @ + 1]
    IN
    CASE me.pc = "created" ->
            IF GetPageFails(srv, 1)
            THEN [me EXCEPT !.calls = Append(@, 1),
                            !.pc = "error", !.err = "PluginError"]
            ELSE IF me.page_size = 0
            THEN [me EXCEPT !.json = GetPage(srv, 1),
                            !.calls = Append(@, 1),
                            !.pc = "error", !.err = "ZeroDivisionError"]
            ELSE [me EXCEPT !.json = GetPage(srv, 1),
                            !.pages = PagesOf(GetPage(srv, 1).totalRecords,
                                              me.page_size),
                            !.calls = Append(@, 1),
                            !.series_counter = [g \in Groups |-> 0],
                            !.limit = NormalizeLimit(me.cfg_limit),
                            !.pc = "for_page"]
      [] me.pc = "for_page" ->
            IF ~HasNextPage(me.page, me.pages)
            THEN [me EXCEPT !.pc = "done"]
            ELSE IF ~NeedsFetch(me.page + 1)
            THEN [me EXCEPT !.page = @ + 1, !.idx = 0, !.pc = "for_record"]
            ELSE IF GetPageFails(srv, me.page + 1)
            THEN [me EXCEPT !.calls = Append(@, me.page + 1),
                            !.page = @ + 1,
                            !.pc = "error", !.err = "PluginError"]
            ELSE [me EXCEPT !.json = GetPage(srv, me.page + 1),
                            !.calls = Append(@, me.page + 1),
                            !.page = @ + 1, !.idx = 0, !.pc = "for_record"]
      [] me.pc = "for_record" ->
            IF ~HasNextRecord(me.idx, me.json.records)
            THEN [me EXCEPT !.pc = "for_page"]
            ELSE IF ~LimitCheck(counter[record.seriesId], me.cfg_limit)
            THEN [me EXCEPT !.idx = @ + 1]
            ELSE IF RaisesKeyError(record)
            THEN [me EXCEPT !.series_counter = counted, !.idx = @ + 1,
                            !.pc = "error", !.err = "KeyError"]
            ELSE IF IsValid(record)
            THEN [me EXCEPT !.series_counter = counted, !.idx = @ + 1,
                            !.out = Append(@, record), !.pc = "yielded"]
            ELSE [me EXCEPT !.series_counter = counted, !.idx = @ + 1,
                            !.diag = Append(@, record)]
      [] me.pc = "yielded" -> [me EXCEPT !.pc = "for_record"]
      [] OTHER -> me

\* next() on run r: its body runs, alone, up to its next yield, its return or
\* the exception that ends it.
RECURSIVE Advance(_, _, _)
Advance(rs, r, srv) ==
    LET after == [rs EXCEPT ![r] = RunStep(rs, r, srv)] IN
    IF after[r].pc \in {"yielded", "done", "error"}
    THEN after
    ELSE Advance(after, r, srv)

\* Two generators are created with the same page size over one server.
TwinInit ==
    /\ RunIdle
    /\ EntryIdle
    /\ TrayIdle
    /\ server \in Servers
    /\ \E ps \in PageSizes, pair \in LimitPairs :
        runs = <<NewRun(ps, pair[1]), NewRun(ps, pair[2])>>

\* The consumer of one of the runs pulls its next entry; between two pulls
\* it may let the other run go first.
PullNext ==
    /\ \E r \in DOMAIN runs :
        /\ runs[r].pc \in {"created", "yielded"}
        /\ runs' = Advance(runs, r, server)
    /\ UNCHANGED <<run_vars, entry_vars, tray_vars, server>>

TwinNext == PullNext

TwinSpec == TwinInit /\ [][TwinNext]_vars

\* ------------------------------------------------ what the claims speak of
Min(a, b) == IF a < b THEN a ELSE b
Max(a, b) == IF a > b THEN a ELSE b

\* <<1, 2, ..., n>>, empty when n <= 0.
Iota(n) == [i \in 1..n |-> i]

\* The validity predicate on a raw record: title present and non-empty.
ValidRecord(r) == r.title = "ok"

\* The limit is finite: an integer, or True (which counts as 1).
FiniteLimit == cfg_limit # PyFalse

\* The records of pages 1..pages, in page order and in-page order.
Listing == Flatten(FirstPages(fetched, pages))

OfGroup(rs, g) == SelectSeq(rs, LAMBDA r : r.seriesId = g)
Valid(rs) == SelectSeq(rs, ValidRecord)
Take(rs, n) == SubSeq(rs, 1, Min(n, Len(rs)))

\* n is the ceiling of t / p, for p > 0.
IsCeil(n, t, p) == n * p >= t /\ (n - 1) * p < t

\* Is s a subsequence of t?
RECURSIVE IsSubseq(_, _)
IsSubseq(s, t) ==
    IF s = <<>> THEN TRUE
    ELSE IF t = <<>> THEN FALSE
    ELSE IF Head(s) = Head(t) THEN IsSubseq(Tail(s), Tail(t))
    ELSE IsSubseq(s, Tail(t))

\* The k-th record of rs is within the first n records of its group.
WithinFirst(rs, k, n) ==
    Cardinality({j \in 1..(k - 1) : rs[j].seriesId = rs[k].seriesId}) < n

RECURSIVE Pick(_, _, _)
Pick(rs, keep, k) ==
    IF k > Len(rs) THEN <<>>
    ELSE (IF k \in keep THEN <<rs[k]>> ELSE <<>>) \o Pick(rs, keep, k + 1)

\* What a run over the records rs hands out under the limit value n: the
\* valid records among the first n of each group, in the order of rs.
ExpectedOut(rs, n) ==
    Pick(rs, {k \in 1..Len(rs) : WithinFirst(rs, k, n) /\ ValidRecord(rs[k])}, 1)

\* The records of rs that fail the validity predicate and are within the
\* first n of their group, in the order of rs.
ExpectedDiag(rs, n) ==
    Pick(rs, {k \in 1..Len(rs) : WithinFirst(rs, k, n) /\ ~ValidRecord(rs[k])}, 1)

\* ------------------------------------------------------------------ claims
\* C1: with a finite limit L, at every point of the run and for every
\* seriesId g, at most L entries with group g have been yielded.
C1_AtMostLimitPerGroup ==
    FiniteLimit => \A g \in Groups : Len(OfGroup(out, g)) <= cfg_limit.n

\* C1 witness: a run over two pages ended with a group at its limit while
\* the listing held more valid records of that group.
C1_Witness ==
    /\ pc = "done"
    /\ ~cfg_limit.bool
    /\ Len(fetched) >= 2
    /\ \E g \in Groups :
        /\ Len(OfGroup(out, g)) = cfg_limit.n
        /\ Len(Valid(OfGroup(Listing, g))) > cfg_limit.n

\* C2 (as claimed): with limit = false a run consumed to exhaustion yields
\* every valid record of pages 1..pages exactly once, in order.
C2_UnlimitedYieldsAll ==
    (pc = "done" /\ cfg_limit = PyFalse) => out = Valid(Listing)

C4_CallsEqualPages ==
    (pc = "done" /\ page_size > 0) =>
        /\ IsCeil(pages, first_total, page_size)
        /\ calls = Iota(pages)

\* C4 (amended): for page size p > 0 and totalRecords t of page 1, pages is
\* ceil(t / p) and a run consumed to exhaustion has called get_page exactly
\* max(1, ceil(t / p)) times, for pages 1, 2, ... in order, each once: the
\* call for page 1 is made also when t = 0.
C4_CallsEqualPagesOrOne ==
    /\ (fetched # <<>> /\ page_size > 0) =>
           IsCeil(pages, first_total, page_size)
    /\ (pc = "done" /\ page_size > 0) => calls = Iota(Max(1, pages))

\* C4 witness: 3 records in pages of 2 were read to the end with two calls.
C4_Witness ==
    /\ pc = "done"
    /\ page_size = 2
    /\ first_total = 3
    /\ calls = <<1, 2>>

\* C5: when page 1 reports totalRecords = 0, with a page size > 0 and any
\* limit, nothing is yielded and get_page is called once, for page 1, even
\* if page 1 holds records.
C5_ZeroTotalYieldsNothing ==
    (fetched # <<>> /\ first_total = 0 /\ page_size > 0) =>
        /\ pages = 0
        /\ out = <<>>
        /\ diag = <<>>
        /\ calls = <<1>>
        /\ pc \in {"for_page", "done"}

\* C5 witness: a run ended whose page 1 reported 0 records and yet held a
\* valid record that the limit would have let through.
C5_Witness ==
    /\ pc = "done"
    /\ first_total = 0
    /\ page_size > 0
    /\ cfg_limit.n >= 1
    /\ fetched[1] # <<>>
    /\ ValidRecord(fetched[1][1])


\* C6: the yielded entries are always a subsequence of the records of
\* pages 1..pages taken in page order and, within a page, in the order the
\* server returned them: nothing is reordered and nothing is yielded twice.
C6_OutputInSourceOrder == IsSubseq(out, Listing)

\* C6 witness: a run ended that yielded entries of two pages and left out
\* a record between two of them.
C6_Witness ==
    /\ pc = "done"
    /\ Len(fetched) >= 2
    /\ fetched[1] # <<>>
    /\ fetched[2] # <<>>
    /\ out = <<fetched[1][1], fetched[2][Len(fetched[2])]>>
    /\ Len(Listing) > 2
    /\ out[1] # out[2]

\* While the generator is suspended at a yield, or was closed there, the
\* last page requested is the page of the entry just handed over.
NoFetchAhead ==
    /\ (pc \in {"yielded", "closed"} /\ out # <<>>) =>
        /\ Len(calls) = page
        /\ Len(fetched) = page
        /\ fetched[page] = json.records
        /\ idx \in 1..Len(json.records)
        /\ json.records[idx] = out[Len(out)]
    /\ (pc = "closed" /\ out = <<>>) => calls = <<>>

\* C7: get_page is called only when the consumer pulls: a call is made only
\* by the running generator, after every record received so far has been
\* processed and every entry accepted from them has been handed over; no
\* page is requested ahead of the entry being handed over, and none after
\* the consumer has abandoned the iteration.
C7_FetchOnlyOnDemand ==
    /\ [][calls' # calls =>
            /\ pc \in {"created", "for_page"}
            /\ idx = Len(json.records)
            /\ out = ExpectedOut(Flatten(fetched), cfg_limit.n)
            /\ Len(out) + Len(diag) =
                   Len(ExpectedOut(Flatten(fetched), cfg_limit.n))
                       + Len(ExpectedDiag(Flatten(fetched), cfg_limit.n))]_vars
    /\ [][pc = "closed" => calls' = calls]_vars
    /\ []NoFetchAhead

\* C7 witness: the consumer abandoned the run at an entry of page 2 while a
\* third page was still to come, and two calls had been made.
C7_Witness ==
    /\ pc = "closed"
    /\ out # <<>>
    /\ page = 2
    /\ pages = 3
    /\ calls = <<1, 2>>

\* C8: a get_page call that fails ends the run in an error: the pages were
\* requested once each, in order, up to the failed one, the entries yielded
\* are those of the pages before it, and afterwards nothing more is
\* requested or yielded.
C8_FetchFailureAborts ==
    /\ [](err = "PluginError" =>
            /\ pc = "error"
            /\ calls = Iota(Len(calls))
            /\ Len(fetched) = Len(calls) - 1
            /\ out = ExpectedOut(Flatten(fetched), cfg_limit.n))
    /\ [][err = "PluginError" => (calls' = calls /\ out' = out /\ pc' = pc)]_vars

\* C8 witness: the call for page 2 failed after an entry of page 1 had been
\* yielded.
C8_Witness ==
    /\ pc = "error"
    /\ err = "PluginError"
    /\ calls = <<1, 2>>
    /\ out # <<>>

\* C9 (as claimed): a record that fails the validity predicate, such as one
\* with no title, never ends the run: no run ends in the KeyError of such a
\* record, what is logged are invalid records, what is yielded are valid
\* ones, and a run consumed to exhaustion has logged every invalid record
\* that was within the limit of its group.
C9_InvalidRecordNeverAborts ==
    /\ err # "KeyError"
    /\ \A i \in 1..Len(diag) : ~ValidRecord(diag[i])
    /\ \A i \in 1..Len(out) : ValidRecord(out[i])
    /\ pc = "done" => diag = ExpectedDiag(Listing, cfg_limit.n)

\* C10 (as claimed): with a page size <= 0 the run is an error before it
\* starts: get_page is never called, nothing is yielded and the generator
\* never runs to its end.
C10_NonPositivePageSizeRejected ==
    page_size <= 0 =>
        /\ calls = <<>>
        /\ out = <<>>
        /\ pc \in {"created", "error", "closed"}

\* The number a string of decimal digits stands for.
RECURSIVE DigitsValue(_)
DigitsValue(ds) ==
    IF ds = <<>> THEN 0
    ELSE 10 * DigitsValue(SubSeq(ds, 1, Len(ds) - 1))
             + (CHOOSE d \in 0..9 : DigitChars[d + 1] = ds[Len(ds)])

IsDigits(ds) ==
    \A i \in 1..Len(ds) : \E d \in 0..9 : DigitChars[d + 1] = ds[i]

\* ds is n written in decimal and zero-padded to at least width 2: it reads
\* as n, has at least two digits, and has no zero in front beyond width 2.
IsPadded2(ds, n) ==
    /\ IsDigits(ds)
    /\ DigitsValue(ds) = n
    /\ Len(ds) >= 2
    /\ Len(ds) > 2 => ds[1] # "0"

\* C13: for a record with season s >= 0 and episode e >= 0 the Entry has
\* series_season = s, series_episode = e, series_id = 'S' + s padded with
\* zeros to at least width 2 + 'E' + e padded likewise (S02E05 for 2 and 5,
\* S11E03 for 11 and 3, wider numbers in full), and its title is the series
\* title, one space, and that same code.
C13_EntryCodeAndTitle ==
    entry # NoEntry =>
        LET code == entry.series_id
            k == CHOOSE i \in 1..Len(code) : code[i] = "E"
        IN  /\ entry.series_season = raw.seasonNumber
            /\ entry.series_episode = raw.episodeNumber
            /\ entry.series_name = raw.title
            /\ code[1] = "S"
            /\ \E i \in 1..Len(code) : code[i] = "E"
            /\ IsPadded2(SubSeq(code, 2, k - 1), raw.seasonNumber)
            /\ IsPadded2(SubSeq(code, k + 1, Len(code)), raw.episodeNumber)
            /\ entry.title = raw.title \o <<" ">> \o code
            /\ (raw.seasonNumber = 2 /\ raw.episodeNumber = 5) =>
                   code = <<"S", "0", "2", "E", "0", "5">>
            /\ (raw.seasonNumber = 11 /\ raw.episodeNumber = 3) =>
                   code = <<"S", "1", "1", "E", "0", "3">>

\* C13 witness: the Entry of season 123, episode 5 of series A was built.
C13_Witness ==
    /\ raw = [title |-> <<"A">>, seasonNumber |-> 123, episodeNumber |-> 5]
    /\ entry.series_id = <<"S", "1", "2", "3", "E", "0", "5">>
    /\ entry.title = <<"A", " ", "S", "1", "2", "3", "E", "0", "5">>

\* The records the record loop has taken so far, in the order it took them.
Processed ==
    IF page = 0 THEN <<>>
    ELSE IF page > Len(fetched) THEN Flatten(fetched)
    ELSE Flatten(SubSeq(fetched, 1, page - 1)) \o SubSeq(fetched[page], 1, idx)

\* C14: a step that finds the count of the next record's group at the limit
\* changes the read position and nothing else (no counter, no entry, no
\* diagnostic); hence the entries of a group are always the valid ones among
\* its first L records in source order, and every later record of the group,
\* on this page or a later one, is skipped.
C14_SkipChangesOnlyPosition ==
    /\ [][(/\ pc = "for_record"
           /\ idx < Len(json.records)
           /\ series_counter[json.records[idx + 1].seriesId] >= cfg_limit.n)
          => (/\ idx' = idx + 1
              /\ UNCHANGED <<others, config, pc, err, json, pages, limit, page,
                             series_counter, history>>)]_vars
    /\ [](\A g \in Groups :
            OfGroup(out, g) = Valid(Take(OfGroup(Processed, g), cfg_limit.n)))

\* C14 witness: with limit 2, the third valid record of a group, on page 2,
\* has just been skipped after the first two were yielded.
C14_Witness ==
    /\ cfg_limit = [bool |-> FALSE, n |-> 2]
    /\ pc = "for_record"
    /\ page = 2
    /\ idx >= 1
    /\ Len(Processed) = 3
    /\ \A i \in 1..3 :
        /\ Processed[i].seriesId = json.records[idx].seriesId
        /\ ValidRecord(Processed[i])
    /\ out = <<Processed[1], Processed[2]>>
    /\ series_counter[json.records[idx].seriesId] = 2
    /\ diag = <<>>

\* C15: pages is set once, from the totalRecords of the answer to
\* get_page(1), and never changes: whatever totalRecords a later page
\* reports, the pages requested are 1, 2, ... in order, each once, never
\* beyond max(1, pages), a finished run has requested exactly those, and
\* the json used for page 1 is the first answer.
C15_PagesFixedByFirstAnswer ==
    /\ [][pc # "created" => pages' = pages]_vars
    /\ []((fetched # <<>> /\ page_size > 0) =>
            (pages * page_size >= first_total
                /\ (pages - 1) * page_size < first_total))
    /\ [](calls = Iota(Len(calls)) /\ Len(calls) <= Max(1, pages))
    /\ [](pc = "done" => Len(calls) = Max(1, pages))
    /\ []((page = 1 /\ fetched # <<>>) =>
            json = [totalRecords |-> first_total, records |-> fetched[1]])

\* C15 witness: a run of two or more pages ended whose last page reported a
\* totalRecords that gives another number of pages.
C15_Witness ==
    /\ pc = "done"
    /\ page_size > 0
    /\ pages >= 2
    /\ Len(calls) = pages
    /\ json.totalRecords # first_total
    /\ PagesOf(json.totalRecords, page_size) # pages

\* C16 (as claimed): with a finite limit L, in every reachable state and for
\* every seriesId g, series_counter[g] is the number of entries yielded for
\* g plus the number of records of g logged as invalid, and is <= L.
C16_CounterIsYieldedPlusInvalid ==
    FiniteLimit =>
        \A g \in Groups :
            /\ series_counter[g] =
                   Len(OfGroup(out, g)) + Len(OfGroup(diag, g))
            /\ series_counter[g] <= cfg_limit.n

\* C17 (as claimed): with a page size > 0, when every get_page call returns
\* and the consumer keeps pulling, the run goes on until the generator is
\* exhausted: it never stops anywhere else, it stops having processed every
\* record of pages 1..pages, and it requests no page beyond max(1, pages).
C17_RunEndsExhausted ==
    (page_size > 0) =>
        /\ \A i \in 1..Len(calls) : calls[i] <= Max(1, pages)
        /\ \/ ENABLED LiveNext
           \/ (pc = "done" /\ Processed = Listing)

IsPrefix(s, t) == Len(s) <= Len(t) /\ SubSeq(t, 1, Len(s)) = s

\* ----------------------------------------------------------------- C18
\* The four items add_default_menu_items is expected to leave, in order.
DefaultItems == <<"Flexget version", "SEPARATOR", "Shutdown", "Reload Config">>

\* C18: construction leaves running False and icon None; whenever running is
\* True the icon exists, and it exists before run() reaches the blocking
\* icon.run(); running goes from True to False only in the second step of
\* stop(), after self.icon.stop(); while the icon is None no stop() gets past
\* line 43, and the stop() that raises AttributeError leaves running False and
\* menu_items as they were.
C18_Lifecycle ==
    /\ [][(main_pc = "new" /\ main_pc' # "new")
            => (~running' /\ icon' = NoIcon)]_vars
    /\ [](running => icon # NoIcon)
    /\ [](main_pc \in {"line40", "blocked"} => icon # NoIcon)
    /\ [][(running /\ ~running') => stop_pc = "line44"]_vars
    /\ [](stop_pc = "line44" => icon # NoIcon)
    /\ [](icon = NoIcon => (~running /\ stop_pc = "idle"))
    /\ [][(tray_err' = "AttributeError" /\ tray_err # "AttributeError")
            => /\ icon = NoIcon /\ icon' = NoIcon
               /\ ~running /\ ~running'
               /\ menu_items' = menu_items]_vars

\* stop() failed before any run(), and later run() blocks in icon.run().
C18_Witness ==
    /\ tray_err = "AttributeError"
    /\ running
    /\ main_pc = "blocked"
    /\ icon.state = "running"

\* ----------------------------------------------------------------- C19
\* C19: once constructed, menu_items begins with the four default items in
\* order and changes only by an append at its end; the Menu, once built, never
\* changes, and it is built from menu_items as they are at that step; the icon
\* shows that Menu; so the Menu is a prefix of menu_items, and whatever was
\* appended after it was built is in menu_items and beyond the Menu.
C19_MenuBuiltOnce ==
    /\ [](main_pc # "new"
            => (Len(menu_items) >= 4 /\ SubSeq(menu_items, 1, 4) = DefaultItems))
    /\ [][main_pc # "new"
            => \/ menu_items' = menu_items
               \/ \E item \in PluginItems :
                    menu_items' = Append(menu_items, item)]_vars
    /\ [][menu.built => menu' = menu]_vars
    /\ [][(~menu.built /\ menu'.built)
            => (menu'.items = menu_items /\ menu_items' = menu_items)]_vars
    /\ [](icon # NoIcon => (menu.built /\ icon.menu = menu.items))
    /\ [](menu.built => IsPrefix(menu.items, menu_items))

\* The running icon shows an item added before the Menu was built and lacks
\* the one added after.
C19_Witness ==
    /\ icon.state = "running"
    /\ Len(icon.menu) = 5
    /\ Len(menu_items) = 6

\* ----------------------------------------------------------------- C11
\* What a run lets the outside see: the get_page calls, the entries yielded,
\* the entries logged as invalid, how it stands and how it ended.
Seen(run) == <<run.calls, run.out, run.diag, run.pc, run.err>>

\* The two runs were pulled equally far.
EquallyFar == runs[1].pc = runs[2].pc /\ Len(runs[1].out) = Len(runs[2].out)

\* Neither run has done what the other did not do or will not do.
Agreeing ==
    /\ IsPrefix(runs[1].calls, runs[2].calls)
          \/ IsPrefix(runs[2].calls, runs[1].calls)
    /\ IsPrefix(runs[1].out, runs[2].out) \/ IsPrefix(runs[2].out, runs[1].out)
    /\ EquallyFar => Seen(runs[1]) = Seen(runs[2])

TrueBesideOne ==
    /\ runs # <<>>
    /\ runs[1].cfg_limit = PyTrue
    /\ runs[2].cfg_limit = [bool |-> FALSE, n |-> 1]

SameConfig == runs # <<>> /\ runs[1].cfg_limit = runs[2].cfg_limit

IsRecordList(rs) ==
    /\ Len(rs) <= MaxRecords
    /\ \A i \in 1..Len(rs) : rs[i] \in RawRecords

TypeOK ==
    /\ page_size \in PageSizes
    /\ cfg_limit \in LimitConfigs
    /\ pc \in {"created", "for_page", "for_record", "yielded", "done", "error", "closed"}
    /\ err \in {"", "PluginError", "ZeroDivisionError", "KeyError"}
    /\ json.totalRecords \in 0..MaxTotal
    /\ IsRecordList(json.records)
    /\ pages \in -MaxTotal..MaxTotal
    /\ page \in 0..MaxTotal
    /\ idx \in 0..Len(json.records)
    /\ \A g \in Groups : series_counter[g] \in 0..MaxRecords
    /\ IsRecordList(Flatten(fetched))
    /\ IsRecordList(out)
    /\ IsRecordList(diag)
    /\ first_total \in 0..MaxTotal
    /\ icon.state \in {"None", "created", "running", "stopped"}
    /\ menu.built \in BOOLEAN
    /\ Len(menu_items) <= Len(AddDefaults(<<>>)) + MaxAdded
    /\ running \in BOOLEAN
    /\ main_pc \in {"new", "idle", "line39", "line40", "blocked"}
    /\ stop_pc \in {"idle", "line44"}
    /\ tray_err \in {"", "AttributeError", "OSError"}
    /\ server.fail \in 0..TwinMaxTotal
    /\ Len(runs) \in {0, 2}

====
